---- MODULE Spec2Model ----
(***************************************************************************)
(* A register-transfer model of teuthida, a multi-cycle RISC-V core        *)
(* written in Amaranth HDL (src/teuthida/__init__.py).                     *)
(*                                                                         *)
(* Signals driven from the sync domain (m.d.sync) are registers: they keep *)
(* their value until a clock edge assigns them.  Signals driven from the   *)
(* comb domain (m.d.comb) are nets: in every state they are a function of  *)
(* the registers and of the other nets, and a net no active statement      *)
(* assigns has its reset value 0.  One clock edge is one action.           *)
(***************************************************************************)
EXTENDS Integers, Sequences, FiniteSets

\* Width of the datapath words in the model.  The source builds every
\* component with DEFAULT_XLEN = 64; the model keeps the modular arithmetic
\* at a width that, like 64, is wider than the 12-bit immediate and than the
\* 21-bit signed pc_offset, so that zero and sign extension into a word act
\* as they do in the source.
XLEN == 24

\* Retired instructions after which the model stops stepping.
MaxCycles == 5

\* Longest program (in words) loaded into the boot ROM.
MaxProg == 2

Pow2(n) == 2^n

Word == 0 .. (Pow2(XLEN) - 1)

ToWord(n) == n % Pow2(XLEN)

MaxWord == Pow2(XLEN) - 1

\* The word values the model feeds to a data input: 0, 1, the constant of
\* the resident program, and the largest word.
Samples == {0, 1, 66, MaxWord}

(***************************************************************************)
(* 32-bit instruction words, kept as two 16-bit halves <<high, low>>.      *)
(***************************************************************************)
W32(hi, lo) == <<hi, lo>>

\* Python's w[i]: bit i of the word.
Bit(w, i) == IF i < 16 THEN (w[2] \div Pow2(i)) % 2
                       ELSE (w[1] \div Pow2(i - 16)) % 2

\* Python's w[lo:hi]: bits lo .. hi-1 as an unsigned number.
RECURSIVE Slice(_, _, _)
Slice(w, lo, hi) == IF lo >= hi THEN 0
                    ELSE Bit(w, lo) + 2 * Slice(w, lo + 1, hi)

(***************************************************************************)
(* Enumerations.                                                           *)
(***************************************************************************)
ADD == 0

REG == 51   \* 0b0110011

IMM == 19   \* 0b0010011

JAL == 111  \* 0b1101111

JARL == 103 \* 0b1100111

IMM_ADDI == 0

REG_ADD == 0

FETCH == 0

DECODE == 1

MEMACCESS == 2

EXECUTE == 3

WRITEBACK == 4

\* Signal(Funct3) and Signal(Funct7) take their width from the enumeration:
\* the widest member is 0, which needs one bit.  An assignment of a wider
\* slice to them keeps the lowest bit only.
Funct3Width == 1

Funct7Width == 1

(***************************************************************************)
(* Alu                                                                     *)
(***************************************************************************)
\* alu.out: in1 + in2 truncated to xlen while enabled, the reset value else.
\* alu.op is a one-bit signal whose only driven value is ADD.
AluOut(en, in1, in2) == IF en THEN ToWord(in1 + in2) ELSE 0

(***************************************************************************)
(* RegisterFile                                                            *)
(***************************************************************************)
\* Variant of RegRead without Case(0): selector 0 reads the array too.
RegReadNoZero(r, sel) == r

\* out1 / out2 of a read port whose selector is sel.  Array([Signal(xlen)]
\* * 30) holds thirty references to ONE Signal: r is the value of that
\* signal, which every index selects.
RegRead(r, sel) == IF sel = 0 THEN 0 ELSE r

\* The register signal is driven from the comb domain: it carries wrval
\* while a guarded write is asserted and its reset value 0 otherwise.
RegsNet(en, sel, val) == IF en /\ (sel > 0) /\ (sel < 31) THEN val ELSE 0

(***************************************************************************)
(* BootRom                                                                 *)
(***************************************************************************)
data == << W32(\H0000, \H0533),   \* 0000_0000:  add  a0, x0, x0
           W32(\H0420, \H0593),   \* 0000_0004:  addi a1, x0, 0x42
           W32(\H00b5, \H0533),   \* 0000_0008:  add  a0, a0, a1
           W32(\Hffdf, \Hf06f) >> \* 0000_000c:  jal  x0, -4

ZeroWord == W32(0, 0)

\* Variant of BootRomOut without the depth guard: the index wraps.
BootRomOutUnguarded(m, addr) == m[((addr \div 4) % Len(m)) + 1]

\* bootrom.out for bootrom.addr = addr over the memory m: the word at index
\* addr[2:] if that is below the depth, the reset value 0 otherwise.
BootRomOut(m, addr) == IF (addr \div 4) < Len(m) THEN m[(addr \div 4) + 1]
                       ELSE ZeroWord

(***************************************************************************)
(* InstructionDecoder: every output is a function of dec.inst = w.         *)
(***************************************************************************)
op(w) == Slice(w, 0, 7)

rs1(w) == Slice(w, 15, 20)

rd(w) == Slice(w, 7, 12)

funct7(w) == IF op(w) = REG THEN Slice(w, 25, 32) % Pow2(Funct7Width) ELSE 0

rs2(w) == IF op(w) = REG THEN Slice(w, 20, 25) ELSE 0

funct3(w) == IF op(w) = IMM THEN Slice(w, 12, 15) % Pow2(Funct3Width) ELSE 0

\* Variant of i_imm that slices inst[20:31].
i_immShort(w) == IF op(w) = IMM THEN Slice(w, 20, 31) ELSE 0

i_imm(w) == IF op(w) = IMM THEN Slice(w, 20, 32) ELSE 0

IsAdd(w) == op(w) = REG /\ funct7(w) = REG_ADD

IsAddi(w) == op(w) = IMM /\ funct3(w) = IMM_ADDI

IsJal(w) == op(w) = JAL

\* Variant of illegal whose opcode switch has no Default case.
illegalNoDefault(w) == CASE op(w) = REG -> funct7(w) # REG_ADD
                         [] op(w) = IMM -> funct3(w) # IMM_ADDI
                         [] OTHER -> FALSE

illegal(w) == CASE op(w) = REG -> funct7(w) # REG_ADD
                [] op(w) = IMM -> funct3(w) # IMM_ADDI
                [] op(w) = JAL -> FALSE
                [] OTHER -> TRUE

regwrite(w) == CASE op(w) = REG -> TRUE
                 [] op(w) = IMM -> TRUE
                 [] op(w) = JAL -> rd(w) > 0
                 [] OTHER -> FALSE

dec_alu_en(w) == IsAdd(w) \/ IsAddi(w) \/ (IsJal(w) /\ rd(w) > 0)

\* alu.op: every case that drives it drives AluOp.ADD, which is also the
\* reset value.
alu_op(w) == ADD

\* regs.sel1 and regs.sel2 as the decoder drives them.
dec_sel1(w) == rs1(w)

dec_sel2(w) == IF IsAdd(w) THEN rs2(w) ELSE 0

\* Variant of PcOffsetBits that leaves bit 20, the sign, undriven.
PcOffsetBitsUnsigned(w) ==
    IF IsJal(w)
    THEN 2 * ((Slice(w, 21, 31) - 2) % 1024)
         + 2048 * Bit(w, 20)
         + 4096 * Slice(w, 12, 20)
    ELSE 0

\* The 21 bits of pc_offset as an unsigned number.  Bits 1..10 receive
\* inst[21:31] - 2 truncated to the ten bits of the slice assigned; bit 0 is
\* never driven.
PcOffsetBits(w) ==
    IF IsJal(w)
    THEN 2 * ((Slice(w, 21, 31) - 2) % 1024)
         + 2048 * Bit(w, 20)
         + 4096 * Slice(w, 12, 20)
         + 1048576 * Bit(w, 31)
    ELSE 0

\* pc_offset is Signal(signed(21)).
pc_offset(w) == IF PcOffsetBits(w) >= 1048576 THEN PcOffsetBits(w) - 2097152
                ELSE PcOffsetBits(w)

\* alu.in1 and alu.in2 when the register signal carries r and regs.pc is p.
alu_in1(w, r, p) == IF IsJal(w) /\ rd(w) > 0 THEN p ELSE RegRead(r, dec_sel1(w))

alu_in2(w, r) == CASE IsAdd(w) -> RegRead(r, dec_sel2(w))
                   [] IsAddi(w) -> i_imm(w)
                   [] OTHER -> 0

(***************************************************************************)
(* State.                                                                  *)
(*   registers: pc (regs.pc), inst (dec.inst), halt, stage, cycles,        *)
(*              alu_en (alu.en)                                            *)
(*   memory:    mem (bootrom.mem, never written)                           *)
(*   nets:      regs (the register signal), the register-file ports        *)
(*              sel1, sel2, wren, wrsel, wrval, out1, out2                 *)
(***************************************************************************)
VARIABLES pc, inst, halt, stage, cycles, alu_en, mem,
          regs, sel1, sel2, wren, wrsel, wrval, out1, out2

vars == <<pc, inst, halt, stage, cycles, alu_en, mem,
          regs, sel1, sel2, wren, wrsel, wrval, out1, out2>>

cpuRegs == <<pc, inst, halt, stage, cycles, alu_en, mem>>

(***************************************************************************)
(* The nets of the whole design for given register values: stage st, halt  *)
(* h, dec.inst w, alu.en en, regs.pc p.                                    *)
(*                                                                         *)
(* WRITEBACK drives the write port from the ALU, the ALU reads the read    *)
(* ports, and the read ports read the register signal the write port       *)
(* drives: a combinational cycle whenever the instruction reads a register *)
(* other than x0.  A value of the register signal is one that satisfies    *)
(* the net equations; where none does the signal never settles and any     *)
(* value may be sampled.  The candidate values are those of Samples, which *)
(* holds 0, the value the signal carries in every stage before WRITEBACK.  *)
(***************************************************************************)
cpu_wren(st, h, w) == (~h) /\ st = WRITEBACK /\ regwrite(w)

cpu_wrsel(st, h, w) == IF cpu_wren(st, h, w) THEN rd(w) ELSE 0

cpu_wrval(st, h, w, en, p, r) ==
    IF cpu_wren(st, h, w) THEN AluOut(en, alu_in1(w, r, p), alu_in2(w, r))
    ELSE 0

RegsEq(st, h, w, en, p, r) ==
    RegsNet(cpu_wren(st, h, w), cpu_wrsel(st, h, w),
            cpu_wrval(st, h, w, en, p, r))

\* Whether the value written depends on the register signal itself.
ReadsRegs(st, h, w, en) ==
    /\ cpu_wren(st, h, w)
    /\ en
    /\ \/ (~(IsJal(w) /\ rd(w) > 0)) /\ dec_sel1(w) # 0
       \/ IsAdd(w) /\ dec_sel2(w) # 0

RegsValues(st, h, w, en, p) ==
    IF ~ReadsRegs(st, h, w, en) THEN {RegsEq(st, h, w, en, p, 0)}
    ELSE LET stable == {r \in Samples : RegsEq(st, h, w, en, p, r) = r}
         IN  IF stable # {} THEN stable ELSE Samples

\* The nets after an edge that leaves the registers st, h, w, en, p.
Settle(st, h, w, en, p) ==
    \E r \in RegsValues(st, h, w, en, p) :
        /\ regs' = r
        /\ sel1' = dec_sel1(w)
        /\ sel2' = dec_sel2(w)
        /\ wren' = cpu_wren(st, h, w)
        /\ wrsel' = cpu_wrsel(st, h, w)
        /\ wrval' = cpu_wrval(st, h, w, en, p, r)
        /\ out1' = RegRead(r, dec_sel1(w))
        /\ out2' = RegRead(r, dec_sel2(w))

(***************************************************************************)
(* Programs.  BootRom.__init__ fixes the memory to data; the model also    *)
(* loads every program of at most MaxProg words over InstSet, so that the  *)
(* halt path and every decoder case are exercised.                         *)
(***************************************************************************)
InstSet == { W32(\H0000, \H0000),   \* all-zero word (opcode 0)
             W32(\H0000, \H8067),   \* jalr x0, ra, 0  (opcode JARL)
             W32(\H02b5, \H0533),   \* REG, funct7 0000001 (mul a0,a0,a1)
             W32(\H40b5, \H0533),   \* REG, funct7 0100000 (sub a0,a0,a1)
             W32(\H0015, \H1513),   \* IMM, funct3 001 (slli a0,a0,1)
             W32(\H0000, \H0533),   \* add  a0, x0, x0
             W32(\H00b5, \H0533),   \* add  a0, a0, a1
             W32(\H0420, \H0593),   \* addi a1, x0, 0x42
             W32(\H0015, \H0513),   \* addi a0, a0, 1
             W32(\H0000, \H0013),   \* addi x0, x0, 0
             W32(\H0010, \H0f93),   \* addi x31, x0, 1
             W32(\H0080, \H00ef),   \* jal  ra, 8
             W32(\H0000, \H006f),   \* jal  x0, 0
             W32(\H0040, \H006f),   \* jal  x0, 4
             W32(\H00c0, \H006f),   \* jal  x0, 12
             W32(\Hffdf, \Hf06f) }  \* jal  x0, -4

Programs == {data} \cup UNION {[1 .. n -> InstSet] : n \in 1 .. MaxProg}

(***************************************************************************)
(* Cpu                                                                     *)
(***************************************************************************)
\* Variant of NextStage that passes over EXECUTE.
NextStageSkip(st) == IF st = MEMACCESS THEN WRITEBACK ELSE (st + 1) % 5

\* The phase advance: WRITEBACK returns to FETCH, any other stage goes on.
NextStage(st) == IF st = WRITEBACK THEN FETCH ELSE st + 1

\* Variant of NextCycles that counts clock edges.
NextCyclesEveryEdge(st, c) == ToWord(c + 1)

\* cycles after an edge taken in stage st.
NextCycles(st, c) == IF st = WRITEBACK THEN ToWord(c + 1) ELSE c

\* Variant of NextHalt that latches dec.illegal outside the DECODE case.
NextHaltAnyStage(st, h, w) == illegal(w)

\* Variant of NextHalt that never latches dec.illegal.
NextHaltNever(st, h, w) == h

\* halt after an edge taken in stage st with dec.inst = w.
NextHalt(st, h, w) == IF st = DECODE THEN illegal(w) ELSE h

\* What EXECUTE adds to regs.pc.
ExecOffset(w) == IF pc_offset(w) # 0 THEN pc_offset(w) - 4 ELSE 0

Init ==
    /\ mem \in Programs
    /\ pc = 0
    /\ inst = ZeroWord
    /\ halt = FALSE
    /\ stage = FETCH
    /\ cycles = 0
    /\ alu_en = FALSE
    /\ regs = 0
    /\ sel1 = 0
    /\ sel2 = 0
    /\ wren = FALSE
    /\ wrsel = 0
    /\ wrval = 0
    /\ out1 = 0
    /\ out2 = 0

\* The part of an edge common to every stage while not halted.
Advance ==
    /\ stage' = NextStage(stage)
    /\ cycles' = NextCycles(stage, cycles)
    /\ halt' = NextHalt(stage, halt, inst)
    /\ mem' = mem

StepFetch ==
    /\ ~halt
    /\ stage = FETCH
    /\ inst' = BootRomOut(mem, pc)
    /\ pc' = ToWord(pc + 4)
    /\ alu_en' = alu_en
    /\ Advance
    /\ Settle(stage', halt', inst', alu_en', pc')

StepDecode ==
    /\ ~halt
    /\ stage = DECODE
    /\ UNCHANGED <<inst, pc, alu_en>>
    /\ Advance
    /\ Settle(stage', halt', inst', alu_en', pc')

StepMemAccess ==
    /\ ~halt
    /\ stage = MEMACCESS
    /\ UNCHANGED <<inst, pc, alu_en>>
    /\ Advance
    /\ Settle(stage', halt', inst', alu_en', pc')

StepExecute ==
    /\ ~halt
    /\ stage = EXECUTE
    /\ alu_en' = dec_alu_en(inst)
    /\ pc' = ToWord(pc + ExecOffset(inst))
    /\ inst' = inst
    /\ Advance
    /\ Settle(stage', halt', inst', alu_en', pc')

StepWriteback ==
    /\ ~halt
    /\ stage = WRITEBACK
    /\ cycles < MaxCycles
    /\ alu_en' = FALSE
    /\ UNCHANGED <<inst, pc>>
    /\ Advance
    /\ Settle(stage', halt', inst', alu_en', pc')

\* Variant of StepHalted with the phase advance outside If(~self.halt).
StepHaltedAdvancing ==
    /\ halt
    /\ stage' = NextStage(stage)
    /\ UNCHANGED <<pc, inst, halt, cycles, alu_en, mem>>
    /\ Settle(stage', halt', inst', alu_en', pc')

\* An edge while halted: nothing under If(~self.halt) is active.
StepHalted ==
    /\ halt
    /\ UNCHANGED cpuRegs
    /\ Settle(stage', halt', inst', alu_en', pc')

Next ==
    \/ StepFetch
    \/ StepDecode
    \/ StepMemAccess
    \/ StepExecute
    \/ StepWriteback
    \/ StepHalted

Spec == Init /\ [][Next]_vars

(***************************************************************************)
(* The register file on its own, as a test bench drives it: every step     *)
(* presents one input vector (two read selectors, write enable, write      *)
(* selector, write value) and the nets take the values the comb statements *)
(* of RegisterFile.elaborate give them.                                    *)
(***************************************************************************)
SelSet == {0, 1, 10, 30, 31}

InitRF == Init /\ mem = data

RfDrive ==
    \E s1 \in SelSet, s2 \in SelSet, en \in BOOLEAN, ws \in SelSet,
       wv \in Samples :
        /\ sel1' = s1
        /\ sel2' = s2
        /\ wren' = en
        /\ wrsel' = ws
        /\ wrval' = wv
        /\ regs' = RegsNet(en, ws, wv)
        /\ out1' = RegRead(regs', s1)
        /\ out2' = RegRead(regs', s2)
        /\ UNCHANGED cpuRegs

NextRF == RfDrive

SpecRF == InitRF /\ [][NextRF]_vars

(***************************************************************************)
(* The decoder with the register file, as a test bench drives them: every  *)
(* step latches one instruction word into dec.inst, the decoder drives the *)
(* read selectors from it, and the write port either idles or writes 0x42  *)
(* to x10, so that the read ports carry a nonzero value in some states.    *)
(***************************************************************************)
\* The word with the given R-type fields.
MkWord(f7, r2, r1, f3, d, o) ==
    W32(512 * f7 + 16 * r2 + (r1 \div 2),
        32768 * (r1 % 2) + 4096 * f3 + 128 * d + o)

DecWords ==
    { MkWord(f7, r2, r1, f3, d, o) :
        f7 \in {0, 1, 32, 127}, r2 \in {0, 11}, r1 \in {0, 10},
        f3 \in {0, 1, 2}, d \in {0, 1, 31}, o \in {0, REG, IMM, JAL, JARL} }

InitDec == Init /\ mem = data

DecDrive ==
    \E w \in DecWords, en \in BOOLEAN :
        /\ inst' = w
        /\ sel1' = dec_sel1(w)
        /\ sel2' = dec_sel2(w)
        /\ wren' = en
        /\ wrsel' = 10
        /\ wrval' = 66
        /\ regs' = RegsNet(en, 10, 66)
        /\ out1' = RegRead(regs', dec_sel1(w))
        /\ out2' = RegRead(regs', dec_sel2(w))
        /\ UNCHANGED <<pc, halt, stage, cycles, alu_en, mem>>

NextDec == DecDrive

SpecDec == InitDec /\ [][NextDec]_vars

(***************************************************************************)
(* Properties.                                                             *)
(***************************************************************************)
\* Register x<sel> as a snapshot reads it.
x(sel) == RegRead(regs, sel)

Stages == {FETCH, DECODE, MEMACCESS, EXECUTE, WRITEBACK}

\* C1: halt is terminal.  Once halt is true it stays true, and every later
\* edge leaves pc, the register signal, cycles and stage unchanged.
C1_HaltTerminal ==
    [][halt => /\ halt'
               /\ pc' = pc
               /\ regs' = regs
               /\ cycles' = cycles
               /\ stage' = stage]_vars

\* A halted machine that retired an instruction before the illegal one.
C1_Witness == halt /\ cycles > 0 /\ pc > 0

\* C2: on the resident program, in the state where cycles first equals 3
\* (stage FETCH, fifteen edges after reset) register a0 = x10 holds 0x42.
C2_A0Is42 == (mem = data /\ stage = FETCH /\ cycles = 3) => x(10) = 66

\* The J-immediate of a JAL word, sign-extended (RISC-V J format).
JImm(w) == 2 * Slice(w, 21, 31) + 2048 * Bit(w, 20) + 4096 * Slice(w, 12, 20)
           - 1048576 * Bit(w, 31)

\* C3: a JAL fetched from address A (regs.pc is A + 4 from its FETCH on)
\* leaves its EXECUTE edge with pc = A + imm modulo 2^xlen.
C3_JalTarget ==
    [][(~halt /\ stage = EXECUTE /\ IsJal(inst))
          => pc' = ToWord((pc - 4) + JImm(inst))]_vars

\* C4: stage is always one of the five phases, and every edge taken while
\* not halted moves it to its successor in
\* FETCH -> DECODE -> MEMACCESS -> EXECUTE -> WRITEBACK -> FETCH.
PhaseSucc(st) == CASE st = FETCH -> DECODE
                   [] st = DECODE -> MEMACCESS
                   [] st = MEMACCESS -> EXECUTE
                   [] st = EXECUTE -> WRITEBACK
                   [] st = WRITEBACK -> FETCH

C4_PhaseOrder ==
    /\ [](stage \in Stages)
    /\ [][(~halt) => stage' = PhaseSucc(stage)]_vars

\* A second instruction has started: the whole cycle has been walked.
C4_Witness == ~halt /\ stage = DECODE /\ cycles = 1

\* C5: cycles grows by exactly 1 (modulo 2^xlen) on an edge taken from
\* WRITEBACK while not halted and is unchanged by every other edge; the
\* edges that change it are exactly the WRITEBACK -> FETCH transitions.
C5_RetireCounter ==
    [][/\ cycles' = IF stage = WRITEBACK /\ ~halt THEN ToWord(cycles + 1)
                    ELSE cycles
       /\ (stage = WRITEBACK /\ stage' = FETCH) <=> (cycles' # cycles)
       /\ cycles' >= cycles]_vars

C5_Witness == cycles = 2 /\ stage = EXECUTE

\* C6: an edge taken from DECODE while not halted sets halt to the
\* decoder's illegal output for the latched instruction; an edge taken from
\* any other stage leaves halt as it was.
C6_IllegalHalts ==
    [][halt' = IF stage = DECODE /\ ~halt THEN illegal(inst) ELSE halt]_vars

\* Halted by the edge out of DECODE, on a word other than the reset value
\* of dec.inst.
C6_Witness == halt /\ stage = MEMACCESS /\ illegal(inst) /\ inst # ZeroWord

\* C7: the resident program never halts, and every FETCH finds pc at one
\* of its four words.
C7_ResidentRuns ==
    (mem = data) => /\ ~halt
                    /\ (stage = FETCH) => (pc \in {0, 4, 8, 12})

\* The loop has been taken: a fetch after the jump, past the fourth
\* retirement.
C7_Witness == mem = data /\ stage = FETCH /\ cycles = MaxCycles /\ pc = 8

\* C8: a read port whose selector is 0 outputs 0, whatever has been
\* written.
C8_ZeroRegister == /\ (sel1 = 0) => (out1 = 0)
                   /\ (sel2 = 0) => (out2 = 0)

\* Both ports select x0 while a guarded write of a nonzero value is
\* asserted.
C8_Witness == /\ sel1 = 0 /\ sel2 = 0 /\ out1 = 0 /\ out2 = 0
              /\ wren /\ wrsel = 10 /\ regs = MaxWord

\* C9: a write with enable true and selector 0 or 31, and a write with
\* enable false, leave the register signal as it was.
C9_WriteGuard ==
    [][((wren' /\ wrsel' \in {0, 31}) \/ ~wren') => regs' = regs]_vars

\* C10: after write(sel, v, true) with sel in 1..30, a read of sel in the
\* next step, which does not itself write sel, returns v on either port.
C10_RoundTrip ==
    [][(wren /\ wrsel \in 1 .. 30 /\ ~(wren' /\ wrsel' = wrsel))
          => /\ (sel1' = wrsel) => (out1' = wrval)
             /\ (sel2' = wrsel) => (out2' = wrval)]_vars

\* C11: a REG word whose funct7 (bits 31:25) is not 0000000 and an IMM word
\* whose funct3 (bits 14:12) is not 000 decode with illegal = true.
C11_UnsupportedFunct ==
    /\ (op(inst) = REG /\ Slice(inst, 25, 32) # 0) => illegal(inst)
    /\ (op(inst) = IMM /\ Slice(inst, 12, 15) # 0) => illegal(inst)

\* C12: a word whose opcode is none of REG, IMM, JAL decodes with
\* illegal = true, regwrite = false and alu_en = false.
C12_UnknownOpcode ==
    (op(inst) \notin {REG, IMM, JAL})
        => illegal(inst) /\ ~regwrite(inst) /\ ~dec_alu_en(inst)

\* The declared but unimplemented JARL opcode, with a destination register.
C12_Witness == op(inst) = JARL /\ Slice(inst, 7, 12) = 1 /\ illegal(inst)

\* C13: a REG word with funct7 0000000 and an IMM word with funct3 000
\* decode with illegal = false, regwrite = true, alu_en = true and ALU
\* opcode ADD; rd is bits 11:7; the first ALU operand is read port 1 with
\* selector bits 19:15; the second is read port 2 with selector bits 24:20
\* for ADD, and bits 31:20 as an unsigned number for ADDI.
C13_LegalDecode ==
    LET isADD == op(inst) = REG /\ Slice(inst, 25, 32) = 0
        isADDI == op(inst) = IMM /\ Slice(inst, 12, 15) = 0
    IN  /\ (isADD \/ isADDI) =>
              /\ ~illegal(inst) /\ regwrite(inst) /\ dec_alu_en(inst)
              /\ alu_op(inst) = ADD
              /\ rd(inst) = Slice(inst, 7, 12)
              /\ sel1 = Slice(inst, 15, 20)
              /\ alu_in1(inst, regs, pc) = out1
        /\ isADD => /\ sel2 = Slice(inst, 20, 25)
                    /\ alu_in2(inst, regs) = out2
        /\ isADDI => alu_in2(inst, regs) = Slice(inst, 20, 32)

\* An ADDI whose immediate has its top bit set, read while the register
\* signal carries a nonzero value.
C13_Witness ==
    /\ op(inst) = IMM /\ Slice(inst, 12, 15) = 0 /\ Slice(inst, 20, 32) >= 2048
    /\ sel1 = 10 /\ out1 = 66

\* C14: a read port whose selector is 31 outputs 0, like selector 0.
C14_Read31IsZero == /\ (sel1 = 31) => (out1 = 0)
                    /\ (sel2 = 31) => (out2 = 0)

\* C15: an ADD rd,rs1,rs2 or ADDI rd,rs1,imm with rd in 1..30 leaves its
\* WRITEBACK edge with rd = rs1 + rs2 (or rs1 + imm) modulo 2^xlen, the
\* operands being the values the registers hold before that edge, where the
\* instruction's write lands.
C15_AddResult ==
    [][(~halt /\ stage = WRITEBACK /\ rd(inst) \in 1 .. 30
          /\ (IsAdd(inst) \/ IsAddi(inst)))
          => x(rd(inst))' =
                ToWord(x(rs1(inst))
                       + (IF IsAdd(inst) THEN x(rs2(inst))
                          ELSE Slice(inst, 20, 32)))]_vars

\* C16: a JAL fetched from A with rd in 1..30 leaves its WRITEBACK edge with
\* rd = A + 4 (EXECUTE has moved regs.pc from A + 4 by ExecOffset); a JAL
\* with rd = 0 has regwrite and alu_en false and asserts no write.
C16_JalLink ==
    /\ [][(~halt /\ stage = WRITEBACK /\ IsJal(inst) /\ rd(inst) \in 1 .. 30)
             => x(rd(inst))' = ToWord(pc - ExecOffset(inst))]_vars
    /\ []((IsJal(inst) /\ rd(inst) = 0)
             => ~regwrite(inst) /\ ~dec_alu_en(inst) /\ ~wren)

\* pc_offset as the claim gives it: the J-immediate minus 4 bytes, as a
\* signed 21-bit value.
Signed21(n) == ((n + 1048576) % 2097152) - 1048576

\* C17: for a JAL word pc_offset is the sign-extended J-immediate with its
\* unshifted value reduced by 2, the borrow running through all 21 bits; for
\* any other word it is 0.
C17_BranchOffset ==
    pc_offset(inst) = IF op(inst) = JAL THEN Signed21(JImm(inst) - 4) ELSE 0

\* C18: a write with enable true and selector sel in 1..30 leaves what every
\* other selector in 1..30 reads unchanged.
C18_Independence ==
    [][(wren' /\ wrsel' \in 1 .. 30)
          => \A s \in (1 .. 30) \ {wrsel'} :
                RegRead(regs', s) = RegRead(regs, s)]_vars

\* The instruction in flight: dec.inst from the state after its FETCH edge
\* to the state before the next one.
InFlight == stage # FETCH

\* C19: an instruction that decodes illegal never retires.  It gets no
\* further than DECODE unhalted and MEMACCESS halted, halt implies
\* stage = MEMACCESS, and no edge taken while it is in flight asserts a
\* write, changes the register signal, cycles or the PC.
C19_IllegalNeverRetires ==
    /\ [](halt => stage = MEMACCESS /\ illegal(inst))
    /\ []((InFlight /\ illegal(inst))
             => /\ stage = DECODE \/ (stage = MEMACCESS /\ halt)
                /\ ~wren
                /\ regs = 0)
    /\ [][(InFlight /\ illegal(inst))
             => /\ cycles' = cycles
                /\ pc' = pc
                /\ regs' = regs
                /\ ~wren']_vars

\* Halted on a REG word with an unsupported funct7, for which the decoder
\* asserts regwrite together with illegal, fetched from address 0.
C19_Witness ==
    /\ halt /\ stage = MEMACCESS /\ op(inst) = REG
    /\ illegal(inst) /\ regwrite(inst) /\ pc = 4 /\ cycles = 0

\* Word index of the address the instruction in flight was fetched from,
\* before EXECUTE moves the PC.
FetchIndex == ToWord(pc - 4) \div 4

\* C20: a FETCH edge taken with word index pc >> 2 >= L latches the word 0;
\* that word decodes illegal, the edge out of DECODE sets halt and leaves
\* cycles and the register signal unchanged, and no word fetched from beyond
\* the program gets past DECODE unhalted.
C20_OffEndHalts ==
    /\ [][(~halt /\ stage = FETCH /\ (pc \div 4) >= Len(mem))
             => inst' = ZeroWord /\ illegal(inst')]_vars
    /\ [][(~halt /\ stage = DECODE /\ FetchIndex >= Len(mem))
             => halt' /\ cycles' = cycles /\ regs' = regs]_vars
    /\ []((stage \in {MEMACCESS, EXECUTE} /\ FetchIndex >= Len(mem)) => halt)

\* Halted beyond the end of a program that retired its last word.
C20_Witness ==
    /\ halt /\ inst = ZeroWord /\ FetchIndex = Len(mem) /\ cycles = Len(mem)

====
